---- MODULE Spec2Model ----
(***************************************************************************)
(* Movie metadata cache (MovieRepository.GetOrCreateByIMDbID) and the      *)
(* rule-based recommendation engine (RecommendationService) of the movie   *)
(* watchlist API, over a MongoDB store with a unique index on imdb_id.     *)
(*                                                                         *)
(* Go strings are sequences of one-character strings, so that trimming,    *)
(* splitting, case folding and byte-wise comparison are computed.          *)
(***************************************************************************)
EXTENDS Integers, Sequences, FiniteSets, TLC

\* ---------------------------------------------------------------- bounds
MaxCalls == 2       \* GetOrCreateByIMDbID calls made in one run, all callers together
MaxMovies == 3      \* movies in the store of the recommendation runs
MaxRows == 1        \* rating and watchlist rows, together, in that store
MaxLimit == 2       \* largest limit passed to GetRecommendations
MaxItems == 2       \* results in one upstream search response
MaxOps == 2         \* rating and watchlist calls made in one run, all callers together
MaxPieces == 3      \* comma-separated pieces of a genre field

\* ------------------------------------------------------- program constants
LikedThreshold == 4 \* GetHighRatedGenres(userID, 4)

\* ---------------------------------------------------------------- strings
Ord(c) ==
    CASE c = " " -> 32 [] c = "," -> 44 [] c = "." -> 46 [] c = "/" -> 47
      [] c = "0" -> 48 [] c = "1" -> 49 [] c = "2" -> 50 [] c = "7" -> 55
      [] c = "8" -> 56 [] c = "9" -> 57
      [] c = "A" -> 65 [] c = "D" -> 68 [] c = "N" -> 78 [] c = "S" -> 83
      [] c = "T" -> 84
      [] c = "a" -> 97 [] c = "c" -> 99 [] c = "d" -> 100 [] c = "i" -> 105
      [] c = "r" -> 114 [] c = "s" -> 115 [] c = "t" -> 116

IsSpace(c) == c = " "

LowerChar(c) ==
    CASE c = "A" -> "a" [] c = "D" -> "d" [] c = "F" -> "f" [] c = "N" -> "n"
      [] c = "S" -> "s" [] c = "T" -> "t" [] OTHER -> c

ToLower(s) == [i \in 1..Len(s) |-> LowerChar(s[i])]

RECURSIVE TrimLeft(_)
TrimLeft(s) ==
    IF s # <<>> /\ IsSpace(Head(s)) THEN TrimLeft(Tail(s)) ELSE s

RECURSIVE TrimRight(_)
TrimRight(s) ==
    IF s # <<>> /\ IsSpace(s[Len(s)]) THEN TrimRight(SubSeq(s, 1, Len(s) - 1)) ELSE s

\* strings.TrimSpace, and the $trim of the aggregation pipeline
TrimSpace(s) == TrimRight(TrimLeft(s))

\* strings.Split(s, ",") and $split: the pieces between the commas, empty pieces kept
RECURSIVE SplitAcc(_, _, _)
SplitAcc(s, cur, acc) ==
    IF s = <<>> THEN Append(acc, cur)
    ELSE IF Head(s) = "," THEN SplitAcc(Tail(s), <<>>, Append(acc, cur))
    ELSE SplitAcc(Tail(s), Append(cur, Head(s)), acc)

Split(s) == SplitAcc(s, <<>>, <<>>)

Contains(s, sub) ==
    \E i \in 1..(Len(s) - Len(sub) + 1) : SubSeq(s, i, i + Len(sub) - 1) = sub

\* {"$regex": genre, "$options": "i"} for a pattern without metacharacters
RegexMatchCI(pattern, s) == Contains(ToLower(s), ToLower(pattern))

\* byte-wise string order of MongoDB's default (simple binary) collation
RECURSIVE StrLess(_, _)
StrLess(a, b) ==
    IF b = <<>> THEN FALSE
    ELSE IF a = <<>> THEN TRUE
    ELSE IF Ord(Head(a)) # Ord(Head(b)) THEN Ord(Head(a)) < Ord(Head(b))
    ELSE StrLess(Tail(a), Tail(b))

\* ------------------------------------------------------------------ data
Callers == {1, 2}
Users == {"u1", "u2"}

\* IMDb IDs that callers ask for; the catalog answers with the lower-case form
RequestIDs == {<<"t", "t", "1">>, <<"T", "T", "1">>}

\* models.Movie, the fields the cache and the recommendation queries read
NoMovie == [ID |-> 0, IMDbID |-> <<>>, Title |-> <<>>, Genre |-> <<>>, IMDbRating |-> <<>>]

\* OMDbResponse, with the transport outcome of the request in kind:
\* "neterr" client.Do failed, "status" non-200, "decode" bad JSON,
\* "false" Response == "False", "ok" a decoded detail document
NoResp == [kind |-> "none", IMDbID |-> <<>>, Title |-> <<>>, Genre |-> <<>>, IMDbRating |-> <<>>]

GoodResponse(x) ==
    [kind |-> "ok", IMDbID |-> x, Title |-> <<"T">>,
     Genre |-> <<"A", "c", "t">>, IMDbRating |-> <<"8", ".", "8">>]

OMDbResponses(x) ==
    {GoodResponse(x)}
    \cup {[GoodResponse(x) EXCEPT !.IMDbID = v] : v \in {ToLower(x), <<>>, <<" ">>}}
    \cup {[GoodResponse(x) EXCEPT !.Title = v] : v \in {<<>>, <<" ">>, <<" ", "T">>}}
    \cup {[GoodResponse(x) EXCEPT !.Genre = v] : v \in {<<>>, <<" ">>}}
    \cup {[NoResp EXCEPT !.kind = k] : k \in {"neterr", "status", "decode", "false"}}

\* ----------------------------------------------------------------- state
VARIABLES
    movies,     \* the movies collection, in natural (insertion) order
    ratings,    \* the ratings collection, in natural order
    watchlists, \* the watchlists collection, in natural order
    nextID,     \* source of primitive.NewObjectID()
    apiKey,     \* MovieRepository.apiKey
    pc,         \* per caller: position inside GetOrCreateByIMDbID
    imdbID,     \* per caller: the argument of the running call
    omdbResp,   \* per caller: the decoded upstream response
    movie,      \* per caller: the local variable movie
    fault,      \* per caller: a storage fault was met in the running call
    rets,       \* per caller: the results of the finished calls, oldest first
    extCalls,   \* number of detail requests sent to the catalog
    rec,        \* the response of the last GetRecommendations call
    svc,        \* per caller: the locals of the running MovieService call
    svcRet,     \* per caller: the result of its last finished MovieService call
    cancelled,  \* per caller: its GetOrCreateByIMDbID calls (by number) whose
                \* HTTP request was cancelled by the client while they ran
    row,        \* per caller: the locals of the running rating or watchlist call
    rowRet,     \* per caller: the result of its last finished rating or watchlist call
    nOps,       \* MovieService, rating and watchlist calls started so far
    prev        \* the response of the GetRecommendations call before the last

cacheVars == <<nextID, apiKey, pc, imdbID, omdbResp, movie, fault, rets, extCalls>>
storeVars == <<movies, ratings, watchlists>>
svcVars == <<svc, svcRet, cancelled, row, rowRet, nOps, prev>>
vars == <<movies, ratings, watchlists, nextID, apiKey, pc, imdbID, omdbResp, movie,
          fault, rets, extCalls, rec, svc, svcRet, cancelled, row, rowRet, nOps, prev>>

NoRec == [user |-> "", limit |-> 0, fail |-> "none", status |-> "none", list |-> <<>>,
          prefs |-> <<>>, excl |-> {}, segs |-> <<>>, hit |-> FALSE]

\* MovieService call: position, the argument or the current search item, the
\* upstream search results, the loop index, what became of each item so far,
\* and the local variable movie
NoSvc == [pc |-> "idle", imdbID |-> <<>>, search |-> <<>>, i |-> 0, outcomes |-> <<>>,
          movie |-> NoMovie]

NoSvcRet == [op |-> "none", status |-> "none", imdbID |-> <<>>, search |-> <<>>,
             list |-> <<>>, outcomes |-> <<>>, movie |-> NoMovie]

\* rating or watchlist call: position and arguments; present is what the
\* existence check of the call found, fault that the check itself failed
NoRow == [pc |-> "idle", op |-> "none", user |-> "", movie |-> 0, rating |-> 0,
          present |-> FALSE, fault |-> FALSE]

NoRowRet == [op |-> "none", user |-> "", movie |-> 0, rating |-> 0, present |-> FALSE,
             fault |-> FALSE, status |-> "none", inserted |-> FALSE]

\* ------------------------------------------------------ movies collection
\* collection.FindOne(ctx, bson.M{"imdb_id": id}): exact, case-sensitive match
HasIMDbID(id) == \E i \in 1..Len(movies) : movies[i].IMDbID = id

FindByIMDbID(id) ==
    IF HasIMDbID(id)
    THEN movies[CHOOSE i \in 1..Len(movies) : movies[i].IMDbID = id]
    ELSE NoMovie

\* the collection without the unique index on imdb_id
InsertAccepted_NoIndex(m) ==
    \A i \in 1..Len(movies) : movies[i].ID # m.ID

\* the unique index on imdb_id (and on _id) decides whether InsertOne is accepted
InsertAccepted(m) ==
    /\ ~HasIMDbID(m.IMDbID)
    /\ \A i \in 1..Len(movies) : movies[i].ID # m.ID

\* --------------------------------------------------- GetOrCreateByIMDbID
\* the required-fields validation, applied to the raw response fields
ValidateRequired(r) == r.IMDbID # <<>> /\ r.Title # <<>> /\ r.Genre # <<>>

\* "3. Construct MongoDB movie with full details"
ConstructMovie(r, id) ==
    [ID |-> id, IMDbID |-> r.IMDbID, Title |-> TrimSpace(r.Title),
     Genre |-> TrimSpace(r.Genre), IMDbRating |-> TrimSpace(r.IMDbRating)]

Return(c, status, m, inserted, flt) ==
    /\ rets' = [rets EXCEPT ![c] = Append(@,
                  [x |-> imdbID[c], status |-> status, movie |-> m,
                   resp |-> omdbResp[c], inserted |-> inserted, fault |-> flt])]
    /\ pc' = [pc EXCEPT ![c] = "idle"]
    /\ omdbResp' = [omdbResp EXCEPT ![c] = NoResp]
    /\ movie' = [movie EXCEPT ![c] = NoMovie]
    /\ fault' = [fault EXCEPT ![c] = FALSE]

\* calls started so far, finished or running: those of GetOrCreateByIMDbID,
\* and those counted in nOps
Started ==
    LET n[S \in SUBSET Callers] ==
            IF S = {} THEN 0
            ELSE LET c == CHOOSE d \in S : TRUE
                 IN  Len(rets[c]) + (IF pc[c] = "idle" THEN 0 ELSE 1) + n[S \ {c}]
    IN  n[Callers] + nOps

GetOrCreateByIMDbID_Call(c, x) ==
    /\ pc[c] = "idle"
    /\ Started < MaxCalls
    /\ pc' = [pc EXCEPT ![c] = "find"]
    /\ imdbID' = [imdbID EXCEPT ![c] = x]
    /\ UNCHANGED <<storeVars, nextID, apiKey, omdbResp, movie, fault, rets, extCalls, rec, svcVars>>

\* the credential check placed before the lookup
GetOrCreateByIMDbID_FindOne_KeyFirst(c, dbOK) ==
    /\ pc[c] = "find"
    /\ IF apiKey = "" THEN Return(c, "ConfigurationError", NoMovie, FALSE, FALSE)
       ELSE IF ~dbOK THEN Return(c, "StorageError", NoMovie, FALSE, TRUE)
       ELSE IF HasIMDbID(imdbID[c])
       THEN Return(c, "ok", FindByIMDbID(imdbID[c]), FALSE, FALSE)
       ELSE /\ pc' = [pc EXCEPT ![c] = "fetch"]
            /\ UNCHANGED <<omdbResp, movie, fault, rets>>
    /\ UNCHANGED <<storeVars, nextID, apiKey, imdbID, extCalls, rec, svcVars>>

\* step 1, and the credential check that precedes the request
GetOrCreateByIMDbID_FindOne(c, dbOK) ==
    /\ pc[c] = "find"
    /\ IF ~dbOK THEN Return(c, "StorageError", NoMovie, FALSE, TRUE)
       ELSE IF HasIMDbID(imdbID[c])
       THEN Return(c, "ok", FindByIMDbID(imdbID[c]), FALSE, FALSE)
       ELSE IF apiKey = "" THEN Return(c, "ConfigurationError", NoMovie, FALSE, FALSE)
       ELSE /\ pc' = [pc EXCEPT ![c] = "fetch"]
            /\ UNCHANGED <<omdbResp, movie, fault, rets>>
    /\ UNCHANGED <<storeVars, nextID, apiKey, imdbID, extCalls, rec, svcVars>>

\* a placeholder record written for a title the catalog does not know
GetOrCreateByIMDbID_Fetch_Placeholder(c, r) ==
    /\ pc[c] = "fetch"
    /\ extCalls' = extCalls + 1
    /\ IF r.kind \in {"neterr", "status", "decode"}
       THEN /\ Return(c, "UpstreamUnavailable", NoMovie, FALSE, FALSE)
            /\ UNCHANGED <<nextID, movies>>
       ELSE IF r.kind = "false"
       THEN /\ Return(c, "NotFound", NoMovie, FALSE, FALSE)
            /\ movies' = Append(movies, [NoMovie EXCEPT !.ID = nextID, !.IMDbID = imdbID[c]])
            /\ nextID' = nextID + 1
       ELSE IF ~ValidateRequired(r)
       THEN /\ rets' = [rets EXCEPT ![c] = Append(@,
                          [x |-> imdbID[c], status |-> "InvalidUpstreamData",
                           movie |-> NoMovie, resp |-> r, inserted |-> FALSE,
                           fault |-> FALSE])]
            /\ pc' = [pc EXCEPT ![c] = "idle"]
            /\ UNCHANGED <<omdbResp, movie, fault, nextID, movies>>
       ELSE /\ omdbResp' = [omdbResp EXCEPT ![c] = r]
            /\ movie' = [movie EXCEPT ![c] = ConstructMovie(r, nextID)]
            /\ nextID' = nextID + 1
            /\ pc' = [pc EXCEPT ![c] = "insert"]
            /\ UNCHANGED <<fault, rets, movies>>
    /\ UNCHANGED <<ratings, watchlists, apiKey, imdbID, rec, svcVars>>

\* step 2 and 3: the request, the decoding, the validation, the construction
GetOrCreateByIMDbID_Fetch(c, r) ==
    /\ pc[c] = "fetch"
    /\ extCalls' = extCalls + 1
    /\ IF r.kind \in {"neterr", "status", "decode"}
       THEN /\ Return(c, "UpstreamUnavailable", NoMovie, FALSE, FALSE)
            /\ UNCHANGED nextID
       ELSE IF r.kind = "false"
       THEN /\ Return(c, "NotFound", NoMovie, FALSE, FALSE)
            /\ UNCHANGED nextID
       ELSE IF ~ValidateRequired(r)
       THEN /\ rets' = [rets EXCEPT ![c] = Append(@,
                          [x |-> imdbID[c], status |-> "InvalidUpstreamData",
                           movie |-> NoMovie, resp |-> r, inserted |-> FALSE,
                           fault |-> FALSE])]
            /\ pc' = [pc EXCEPT ![c] = "idle"]
            /\ UNCHANGED <<omdbResp, movie, fault, nextID>>
       ELSE /\ omdbResp' = [omdbResp EXCEPT ![c] = r]
            /\ movie' = [movie EXCEPT ![c] = ConstructMovie(r, nextID)]
            /\ nextID' = nextID + 1
            /\ pc' = [pc EXCEPT ![c] = "insert"]
            /\ UNCHANGED <<fault, rets>>
    /\ UNCHANGED <<storeVars, apiKey, imdbID, rec, svcVars>>

\* step 4 and 5
GetOrCreateByIMDbID_InsertOne(c, dbOK) ==
    /\ pc[c] = "insert"
    /\ IF ~dbOK
       THEN /\ Return(c, "FailedToCache", NoMovie, FALSE, TRUE)
            /\ UNCHANGED movies
       ELSE IF ~InsertAccepted(movie[c])
       THEN /\ Return(c, "FailedToCache", NoMovie, FALSE, FALSE)
            /\ UNCHANGED movies
       ELSE /\ movies' = Append(movies, movie[c])
            /\ Return(c, "ok", movie[c], TRUE, FALSE)
    /\ UNCHANGED <<ratings, watchlists, nextID, apiKey, imdbID, extCalls, rec, svcVars>>

CacheInit ==
    /\ nextID = 1
    /\ apiKey \in {"", "key"}
    /\ pc = [c \in Callers |-> "idle"]
    /\ imdbID = [c \in Callers |-> <<>>]
    /\ omdbResp = [c \in Callers |-> NoResp]
    /\ movie = [c \in Callers |-> NoMovie]
    /\ fault = [c \in Callers |-> FALSE]
    /\ rets = [c \in Callers |-> <<>>]
    /\ extCalls = 0

ServiceInit ==
    /\ svc = [c \in Callers |-> NoSvc]
    /\ svcRet = [c \in Callers |-> NoSvcRet]
    /\ cancelled = [c \in Callers |-> {}]
    /\ row = [c \in Callers |-> NoRow]
    /\ rowRet = [c \in Callers |-> NoRowRet]
    /\ nOps = 0
    /\ prev = NoRec

Init ==
    /\ CacheInit
    /\ ServiceInit
    /\ movies = <<>>
    /\ ratings = <<>>
    /\ watchlists = <<>>
    /\ rec = NoRec

CallerNext(c) ==
    \/ \E x \in RequestIDs : GetOrCreateByIMDbID_Call(c, x)
    \/ \E dbOK \in BOOLEAN : GetOrCreateByIMDbID_FindOne(c, dbOK)
    \/ \E r \in OMDbResponses(imdbID[c]) : GetOrCreateByIMDbID_Fetch(c, r)
    \/ \E dbOK \in BOOLEAN : GetOrCreateByIMDbID_InsertOne(c, dbOK)

Next == \E c \in Callers : CallerNext(c)

Spec == Init /\ [][Next]_vars

\* one caller alone: its calls follow one another with nothing in between
NextSeq == CallerNext(1)

SpecSeq == Init /\ [][NextSeq]_vars

\* ------------------------------------------------- recommendation queries
Take(s, n) == IF Len(s) <= n THEN s ELSE SubSeq(s, 1, n)

Reverse(s) == [i \in 1..Len(s) |-> s[Len(s) + 1 - i]]

RECURSIVE Flatten(_)
Flatten(ss) == IF ss = <<>> THEN <<>> ELSE Head(ss) \o Flatten(Tail(ss))

RECURSIVE Distinct(_)
Distinct(s) ==
    IF s = <<>> THEN <<>>
    ELSE LET d == Distinct(SubSeq(s, 1, Len(s) - 1))
             x == s[Len(s)]
         IN  IF \E i \in 1..Len(d) : d[i] = x THEN d ELSE Append(d, x)

Count(x, s) == Cardinality({i \in 1..Len(s) : s[i] = x})

\* $lookup on movies._id followed by $unwind: the movie, if it exists
MoviesByID(id) == SelectSeq(movies, LAMBDA m : m.ID = id)

\* the pipeline without stage 7: the empty pieces are kept
GenreTokens_KeepEmpty(genre) ==
    LET parts == Split(genre)
    IN  [i \in 1..Len(parts) |-> TrimSpace(parts[i])]

\* stages 4-7 of the pipeline: $split on ",", $trim, drop the empty pieces
GenreTokens(genre) ==
    LET parts == Split(genre)
        trimmed == [i \in 1..Len(parts) |-> TrimSpace(parts[i])]
    IN  SelectSeq(trimmed, LAMBDA t : t # <<>>)

\* $sort {count: -1} over the $group output; rev is the order in which the
\* groups reach the sort (documents with equal counts keep that order)
GetHighRatedGenres(userID, threshold, rev) ==
    LET matched == SelectSeq(ratings,
                       LAMBDA r : r.UserID = userID /\ r.Rating >= threshold)
        fields == Flatten([i \in 1..Len(matched) |->
                      [k \in 1..Len(MoviesByID(matched[i].MovieID)) |->
                          MoviesByID(matched[i].MovieID)[k].Genre]])
        tokens == Flatten([i \in 1..Len(fields) |-> GenreTokens(fields[i])])
        groups == IF rev THEN Reverse(Distinct(tokens)) ELSE Distinct(tokens)
        n == Len(groups)
        before(i, j) == \/ Count(groups[i], tokens) > Count(groups[j], tokens)
                        \/ Count(groups[i], tokens) = Count(groups[j], tokens) /\ i < j
        pos(i) == 1 + Cardinality({j \in 1..n : j # i /\ before(j, i)})
    IN  [k \in 1..n |-> groups[CHOOSE i \in 1..n : pos(i) = k]]

\* only the liked movies taken as rated
GetRatedMovieIDs_LikedOnly(userID) ==
    {ratings[i].MovieID :
        i \in {j \in 1..Len(ratings) :
                  ratings[j].UserID = userID /\ ratings[j].Rating >= LikedThreshold}}

GetRatedMovieIDs(userID) ==
    {ratings[i].MovieID : i \in {j \in 1..Len(ratings) : ratings[j].UserID = userID}}

GetWatchlistMovieIDs(userID) ==
    {watchlists[i].MovieID :
        i \in {j \in 1..Len(watchlists) : watchlists[j].UserID = userID}}

GetMoviesToExclude(userID) == GetRatedMovieIDs(userID) \cup GetWatchlistMovieIDs(userID)

\* SetSort({imdb_rating: -1}) on the string field: descending byte-wise order
SortByIMDbRatingDesc(ms) ==
    LET n == Len(ms)
        before(i, j) == \/ StrLess(ms[j].IMDbRating, ms[i].IMDbRating)
                        \/ ms[i].IMDbRating = ms[j].IMDbRating /\ i < j
        pos(i) == 1 + Cardinality({j \in 1..n : j # i /\ before(j, i)})
    IN  [k \in 1..n |-> ms[CHOOSE i \in 1..n : pos(i) = k]]

\* rev is the order in which the collection scan reaches the sort
GetMoviesByGenreExcludingIDs(genre, excludeIDs, limit, rev) ==
    LET scan == IF rev THEN Reverse(movies) ELSE movies
        found == SelectSeq(scan,
                     LAMBDA m : /\ RegexMatchCI(genre, m.Genre)
                                /\ (excludeIDs = {} \/ m.ID \notin excludeIDs))
        sorted == SortByIMDbRatingDesc(found)
    IN  IF limit > 0 THEN Take(sorted, limit) ELSE sorted

FindAll == movies

\* -------------------------------------------------- RecommendationService
\* the loop over the preferred genres; failFirst: the query for the first
\* preferred genre returns an error (the loop continues with the next genre)
RECURSIVE GenreLoop(_, _, _, _, _, _, _, _)
GenreLoop(preferredGenres, excludeMovieIDs, limit, failFirst, rev, i, acc, segs) ==
    IF i > Len(preferredGenres) \/ Len(acc) >= limit
    THEN [list |-> acc, segs |-> segs]
    ELSE IF failFirst /\ i = 1
    THEN GenreLoop(preferredGenres, excludeMovieIDs, limit, failFirst, rev,
                   i + 1, acc, Append(segs, 0))
    ELSE LET found == GetMoviesByGenreExcludingIDs(preferredGenres[i], excludeMovieIDs,
                                                   limit - Len(acc), rev)
             added == Take(found, limit - Len(acc))
         IN  GenreLoop(preferredGenres, excludeMovieIDs, limit, failFirst, rev,
                       i + 1, acc \o added, Append(segs, Len(added)))

generateGenreBasedRecommendations(preferredGenres, excludeMovieIDs, limit, failFirst, rev) ==
    GenreLoop(preferredGenres, excludeMovieIDs, limit, failFirst, rev, 1, <<>>, <<>>)

\* the fallback without the exclusion map
getFallbackRecommendations_NoExclude(excludeMovieIDs, limit, failed) ==
    IF failed THEN <<>> ELSE Take(FindAll, limit)

\* the fallback loop stopping one entry early
getFallbackRecommendations_Short(excludeMovieIDs, limit, failed) ==
    IF failed THEN <<>>
    ELSE Take(SelectSeq(FindAll, LAMBDA m : m.ID \notin excludeMovieIDs), limit - 1)

\* failed: FindAll returns an error (the empty list is returned)
getFallbackRecommendations(excludeMovieIDs, limit, failed) ==
    IF failed THEN <<>>
    ELSE Take(SelectSeq(FindAll, LAMBDA m : m.ID \notin excludeMovieIDs), limit)

\* the assembled list put in descending order of rating before it is cut
limitResults_Resorted(ms, limit) ==
    IF Len(ms) <= limit THEN [panic |-> FALSE, list |-> SortByIMDbRatingDesc(ms)]
    ELSE IF limit < 0 THEN [panic |-> TRUE, list |-> <<>>]
    ELSE [panic |-> FALSE, list |-> SubSeq(SortByIMDbRatingDesc(ms), 1, limit)]

\* movies[:limit] panics for a negative limit
limitResults(ms, limit) ==
    IF Len(ms) <= limit THEN [panic |-> FALSE, list |-> ms]
    ELSE IF limit < 0 THEN [panic |-> TRUE, list |-> <<>>]
    ELSE [panic |-> FALSE, list |-> SubSeq(ms, 1, limit)]

Faults == {"none", "prefs", "excl", "genre", "fallback"}

\* the response of GetRecommendations(userID, limit): status, list, and what
\* the call went through (prefs: step 1, excl: step 2, segs: entries added per
\* preferred genre, hit: a per-genre or fallback query was issued and returned
\* an error)
Recommend(userID, limit, fail, rev) ==
    LET preferredGenres == GetHighRatedGenres(userID, LikedThreshold, rev)
        excludeMovieIDs == GetMoviesToExclude(userID)
        g == generateGenreBasedRecommendations(preferredGenres, excludeMovieIDs, limit,
                                               fail = "genre", rev)
        runFallback == Len(g.list) < limit
        fallbackMovies ==
            IF runFallback
            THEN getFallbackRecommendations(excludeMovieIDs, limit - Len(g.list),
                                            fail = "fallback")
            ELSE <<>>
        out == limitResults(g.list \o fallbackMovies, limit)
        base == [user |-> userID, limit |-> limit, fail |-> fail, status |-> "ok",
                 list |-> <<>>, prefs |-> <<>>, excl |-> {}, segs |-> <<>>, hit |-> FALSE]
    IN  IF fail \in {"prefs", "excl"}
        THEN [base EXCEPT !.status = "StorageError",
                          !.prefs = IF fail = "excl" THEN preferredGenres ELSE <<>>]
        ELSE [base EXCEPT
                !.status = IF out.panic THEN "panic" ELSE "ok",
                !.list = out.list,
                !.prefs = preferredGenres,
                !.excl = excludeMovieIDs,
                !.segs = g.segs,
                !.hit = \/ fail = "genre" /\ preferredGenres # <<>> /\ limit > 0
                        \/ fail = "fallback" /\ runFallback]

\* a call that puts what it recommends on the watchlist of the user
GetRecommendations_Marking(userID, limit, fail, rev) ==
    /\ rec = NoRec
    /\ LET r == Recommend(userID, limit, fail, rev)
       IN  /\ rec' = r
           /\ watchlists' = watchlists \o
                   [i \in 1..Len(r.list) |-> [UserID |-> userID, MovieID |-> r.list[i].ID]]
    /\ UNCHANGED <<movies, ratings, cacheVars, svcVars>>

GetRecommendations(userID, limit, fail, rev) ==
    /\ rec = NoRec
    /\ rec' = Recommend(userID, limit, fail, rev)
    /\ UNCHANGED <<storeVars, cacheVars, svcVars>>

\* RecommendationHandler writes the response; the request is over
Respond ==
    /\ rec # NoRec
    /\ rec' = NoRec
    /\ UNCHANGED <<storeVars, cacheVars, svcVars>>

\* ---------------------------------------- stores of the recommendation runs
Digits == <<"1", "2", "3", "4", "5", "6", "7", "8", "9">>

\* genre field and imdb_rating of the movies the stores are drawn from
Catalog ==
    { [Genre |-> <<"A", "c", "t", ",", " ", "S", "c", "i">>, IMDbRating |-> <<"9", ".", "0">>],
      [Genre |-> <<"a", "c", "t">>, IMDbRating |-> <<"1", "0", ".", "0">>],
      [Genre |-> <<"D", "r", "a">>, IMDbRating |-> <<"N", "/", "A">>] }

RatingValues == {3, 5}

Limits == (0 - 1)..MaxLimit

MovieStores ==
    UNION { { [i \in 1..n |->
                 [ID |-> i, IMDbID |-> <<"t", "t", Digits[i]>>, Title |-> <<"T">>,
                  Genre |-> f[i].Genre, IMDbRating |-> f[i].IMDbRating]] :
              f \in [1..n -> Catalog] } : n \in 0..MaxMovies }

\* rows with distinct (user, movie) pairs, as the unique indexes keep them
DistinctPairs(rows) ==
    \A i, j \in 1..Len(rows) :
        (rows[i].UserID = rows[j].UserID /\ rows[i].MovieID = rows[j].MovieID) => i = j

RatingStores(n) ==
    UNION { { rows \in [1..k -> [UserID : Users, MovieID : 1..n, Rating : RatingValues]] :
                DistinctPairs(rows) } : k \in 0..MaxRows }

WatchlistStores(n, k) ==
    UNION { { rows \in [1..j -> [UserID : Users, MovieID : 1..n]] :
                DistinctPairs(rows) } : j \in 0..k }

InitRec ==
    /\ CacheInit
    /\ ServiceInit
    /\ apiKey = "key"
    /\ movies \in MovieStores
    /\ ratings \in RatingStores(Len(movies))
    /\ watchlists \in WatchlistStores(Len(movies), MaxRows - Len(ratings))
    /\ rec = NoRec

\* the requests of the runs: every limit without a storage error, and every
\* storage error with the largest limit
Requests ==
    {<<limit, "none">> : limit \in Limits} \cup {<<MaxLimit, fail>> : fail \in Faults}

NextRec ==
    \/ \E u \in Users, q \in Requests, rev \in BOOLEAN :
           GetRecommendations(u, q[1], q[2], rev)
    \/ Respond

SpecRec == InitRec /\ [][NextRec]_vars

\* ------------------------------------------------------------ MovieService
\* OMDbSearchResponse, with the transport outcome of the search request in kind
SearchPattern == [i \in 1..MaxItems |->
                     IF i % 2 = 1 THEN <<"t", "t", "1">> ELSE <<"T", "T", "1">>]

\* the search results of the runs: a title and its variant in upper case,
\* in turn, up to MaxItems of them
SearchLists == {SubSeq(SearchPattern, 1, n) : n \in 0..MaxItems}

SearchResponses ==
    {[kind |-> k, Search |-> <<>>] : k \in {"neterr", "status", "decode", "false"}}
    \cup {[kind |-> "ok", Search |-> l] : l \in SearchLists}

\* search queries: a blank one and a title
Queries == {<<" ">>, <<"T">>}

SvcReturn(c, ret) ==
    /\ svcRet' = [svcRet EXCEPT ![c] = ret]
    /\ svc' = [svc EXCEPT ![c] = NoSvc]

\* the checks and the upstream search request of SearchMovies
SearchMovies_Call(c, query, resp) ==
    /\ svc[c].pc = "idle"
    /\ Started < MaxCalls
    /\ nOps' = nOps + 1
    /\ LET ret == [NoSvcRet EXCEPT !.op = "SearchMovies"]
       IN  IF apiKey = ""
           THEN SvcReturn(c, [ret EXCEPT !.status = "ConfigurationError"])
           ELSE IF TrimSpace(query) = <<>>
           THEN SvcReturn(c, [ret EXCEPT !.status = "InvalidQuery"])
           ELSE IF resp.kind \in {"neterr", "status", "decode"}
           THEN SvcReturn(c, [ret EXCEPT !.status = "UpstreamUnavailable"])
           ELSE IF resp.kind = "false"
           THEN SvcReturn(c, [ret EXCEPT !.status = "UpstreamError"])
           ELSE IF Len(resp.Search) = 0
           THEN SvcReturn(c, [ret EXCEPT !.status = "ok"])
           ELSE /\ svc' = [svc EXCEPT ![c] = [NoSvc EXCEPT !.pc = "s_find",
                                                !.search = resp.Search, !.i = 1,
                                                !.imdbID = resp.Search[1]]]
                /\ UNCHANGED svcRet
    /\ UNCHANGED <<storeVars, cacheVars, rec, cancelled, row, rowRet, prev>>

\* the caching loop giving up at the first item that fails
SearchMovies_Continue_Abort(c, outcome) ==
    LET outs == Append(svc[c].outcomes, outcome)
    IN  IF outcome \in {"fetchfail", "insertfail", "duplicate"}
        THEN SvcReturn(c, [NoSvcRet EXCEPT !.op = "SearchMovies",
                                            !.status = "UpstreamUnavailable",
                                            !.search = svc[c].search, !.outcomes = outs])
        ELSE IF svc[c].i = Len(svc[c].search)
        THEN SvcReturn(c, [NoSvcRet EXCEPT !.op = "SearchMovies", !.status = "ok",
                                            !.search = svc[c].search,
                                            !.list = svc[c].search, !.outcomes = outs])
        ELSE /\ svc' = [svc EXCEPT ![c].pc = "s_find", ![c].i = @ + 1,
                                   ![c].imdbID = svc[c].search[svc[c].i + 1],
                                   ![c].outcomes = outs, ![c].movie = NoMovie]
             /\ UNCHANGED svcRet

\* the end of one iteration of the caching loop: the next item, or the return
\* of searchResp.Search after the last one
SearchMovies_Continue(c, outcome) ==
    LET outs == Append(svc[c].outcomes, outcome)
    IN  IF svc[c].i = Len(svc[c].search)
        THEN SvcReturn(c, [NoSvcRet EXCEPT !.op = "SearchMovies", !.status = "ok",
                                            !.search = svc[c].search,
                                            !.list = svc[c].search, !.outcomes = outs])
        ELSE /\ svc' = [svc EXCEPT ![c].pc = "s_find", ![c].i = @ + 1,
                                   ![c].imdbID = svc[c].search[svc[c].i + 1],
                                   ![c].outcomes = outs, ![c].movie = NoMovie]
             /\ UNCHANGED svcRet

\* "1. Check if movie already exists" (the error of the lookup is dropped),
\* "2. Fetch FULL movie details" (fetchMovieDetails) and the construction of
\* the movie, its ID left zero; the request touches no collection, so it is
\* taken in one step with the lookup
SearchMovies_Fetch(c, dbOK, r) ==
    /\ svc[c].pc = "s_find"
    /\ IF dbOK /\ HasIMDbID(svc[c].imdbID)
       THEN /\ SearchMovies_Continue(c, "cached")
            /\ UNCHANGED extCalls
       ELSE /\ extCalls' = extCalls + 1
            /\ IF r.kind # "ok"
               THEN SearchMovies_Continue(c, "fetchfail")
               ELSE /\ svc' = [svc EXCEPT ![c].pc = "s_create",
                                          ![c].movie = ConstructMovie(r, 0)]
                    /\ UNCHANGED svcRet
    /\ UNCHANGED <<storeVars, nextID, apiKey, pc, imdbID, omdbResp, movie, fault, rets,
                   rec, cancelled, row, rowRet, nOps, prev>>

\* "3. Save FULL movie": MovieRepository.Create, its error dropped
SearchMovies_Create(c, dbOK) ==
    /\ svc[c].pc = "s_create"
    /\ nextID' = nextID + 1
    /\ LET m == [svc[c].movie EXCEPT !.ID = nextID]
       IN  IF dbOK /\ InsertAccepted(m)
           THEN /\ movies' = Append(movies, m)
                /\ SearchMovies_Continue(c, "inserted")
           ELSE /\ UNCHANGED movies
                /\ SearchMovies_Continue(c, IF dbOK THEN "duplicate" ELSE "insertfail")
    /\ UNCHANGED <<ratings, watchlists, apiKey, pc, imdbID, omdbResp, movie, fault, rets,
                   extCalls, rec, cancelled, row, rowRet, nOps, prev>>

\* IDs passed to GetMovieDetails
DetailIDs == RequestIDs \cup {<<" ">>}

\* the validation of the ID and "Check cache first": FindByIMDbID returns
\* (nil, nil) for a missing movie, so the call goes on only after a failed
\* lookup: the credential check, the detail request, the validation of IMDbID
\* and Title, the construction of the movie
GetMovieDetails_Call(c, x, dbOK, r) ==
    /\ svc[c].pc = "idle"
    /\ Started < MaxCalls
    /\ nOps' = nOps + 1
    /\ LET ret == [NoSvcRet EXCEPT !.op = "GetMovieDetails", !.imdbID = x]
           sent == TrimSpace(x) # <<>> /\ ~dbOK /\ apiKey # ""
       IN  /\ extCalls' = IF sent THEN extCalls + 1 ELSE extCalls
           /\ IF TrimSpace(x) = <<>>
              THEN SvcReturn(c, [ret EXCEPT !.status = "InvalidID"]) /\ UNCHANGED nextID
              ELSE IF dbOK
              THEN SvcReturn(c, [ret EXCEPT !.status = "ok", !.movie = FindByIMDbID(x)])
                   /\ UNCHANGED nextID
              ELSE IF apiKey = ""
              THEN SvcReturn(c, [ret EXCEPT !.status = "ConfigurationError"])
                   /\ UNCHANGED nextID
              ELSE IF r.kind \in {"neterr", "status", "decode"}
              THEN SvcReturn(c, [ret EXCEPT !.status = "UpstreamUnavailable"])
                   /\ UNCHANGED nextID
              ELSE IF r.kind = "false"
              THEN SvcReturn(c, [ret EXCEPT !.status = "NotFound"]) /\ UNCHANGED nextID
              ELSE IF r.IMDbID = <<>> \/ r.Title = <<>>
              THEN SvcReturn(c, [ret EXCEPT !.status = "InvalidUpstreamData"])
                   /\ UNCHANGED nextID
              ELSE /\ svc' = [svc EXCEPT ![c] = [NoSvc EXCEPT !.pc = "d_create",
                                   !.imdbID = x, !.movie = ConstructMovie(r, nextID)]]
                   /\ nextID' = nextID + 1
                   /\ UNCHANGED svcRet
    /\ UNCHANGED <<storeVars, apiKey, pc, imdbID, omdbResp, movie, fault, rets,
                   rec, cancelled, row, rowRet, prev>>

\* MovieRepository.Create and the return
GetMovieDetails_Create(c, dbOK) ==
    /\ svc[c].pc = "d_create"
    /\ LET ret == [NoSvcRet EXCEPT !.op = "GetMovieDetails", !.imdbID = svc[c].imdbID]
       IN  IF dbOK /\ InsertAccepted(svc[c].movie)
           THEN /\ movies' = Append(movies, svc[c].movie)
                /\ SvcReturn(c, [ret EXCEPT !.status = "ok", !.movie = svc[c].movie])
           ELSE /\ UNCHANGED movies
                /\ SvcReturn(c, [ret EXCEPT !.status = "FailedToCache"])
    /\ UNCHANGED <<ratings, watchlists, cacheVars, rec, cancelled, row, rowRet, nOps, prev>>

\* the detail answers of the catalog in the runs of the services: the
\* well-formed document, the document with the ID in lower case, the document
\* without title, and a transport failure
DetailResponses(x) ==
    {GoodResponse(x), [GoodResponse(x) EXCEPT !.IMDbID = ToLower(x)],
     [GoodResponse(x) EXCEPT !.Title = <<>>], [NoResp EXCEPT !.kind = "neterr"]}

\* a caller runs one call at a time
CacheNext(c) ==
    /\ svc[c].pc = "idle"
    /\ \/ \E x \in RequestIDs : GetOrCreateByIMDbID_Call(c, x)
       \/ \E dbOK \in BOOLEAN : GetOrCreateByIMDbID_FindOne(c, dbOK)
       \/ \E r \in DetailResponses(imdbID[c]) : GetOrCreateByIMDbID_Fetch(c, r)
       \/ \E dbOK \in BOOLEAN : GetOrCreateByIMDbID_InsertOne(c, dbOK)

ServiceNext(c) ==
    /\ pc[c] = "idle"
    /\ \/ \E q \in Queries, resp \in SearchResponses : SearchMovies_Call(c, q, resp)
       \/ \E dbOK \in BOOLEAN, r \in DetailResponses(svc[c].imdbID) :
              SearchMovies_Fetch(c, dbOK, r)
       \/ \E dbOK \in BOOLEAN : SearchMovies_Create(c, dbOK)
       \/ \E x \in DetailIDs, dbOK \in BOOLEAN : \E r \in DetailResponses(x) :
              GetMovieDetails_Call(c, x, dbOK, r)
       \/ \E dbOK \in BOOLEAN : GetMovieDetails_Create(c, dbOK)

\* a movie cached by an earlier run of the server
CachedMovie ==
    [ID |-> 9, IMDbID |-> <<"t", "t", "1">>, Title |-> <<"T">>,
     Genre |-> <<"A", "c", "t">>, IMDbRating |-> <<"8", ".", "8">>]

\* caller 1 asks for movies by IMDb ID, caller 2 uses the MovieService
NextMovies == CacheNext(1) \/ ServiceNext(2)

SpecMovies == Init /\ [][NextMovies]_vars

\* the store is empty or holds the cached movie
InitHit ==
    /\ CacheInit
    /\ ServiceInit
    /\ movies \in {<<>>, <<CachedMovie>>}
    /\ ratings = <<>>
    /\ watchlists = <<>>
    /\ rec = NoRec

SpecHit == InitHit /\ [][Next]_vars

\* --------------------------------------------- cancellation of the request
\* the client of GET /movies/details goes away while the detail request of
\* its GetOrCreateByIMDbID call is pending: the context of the HTTP request
\* is cancelled. The handler does not pass that context on and the
\* repository builds the catalog request on context.Background(), so nothing
\* in the running call changes.
Cancel(c) ==
    /\ pc[c] = "fetch"
    /\ (Len(rets[c]) + 1) \notin cancelled[c]
    /\ cancelled' = [cancelled EXCEPT ![c] = @ \cup {Len(rets[c]) + 1}]
    /\ UNCHANGED <<storeVars, cacheVars, rec, svc, svcRet, row, rowRet, nOps, prev>>

NextLive == CallerNext(1) \/ Cancel(1)

\* http.Client{Timeout: 30s}: client.Do returns, with a response or an error
SpecLive ==
    /\ Init
    /\ [][NextLive]_vars
    /\ WF_vars(\E r \in OMDbResponses(imdbID[1]) : GetOrCreateByIMDbID_Fetch(1, r))

\* ------------------------------------------ RatingService, WatchlistService
\* the ratings collection without its unique index
RatingInsertAccepted_NoIndex(userID, movieID) == TRUE

\* the watchlists collection without its unique index
WatchlistInsertAccepted_NoIndex(userID, movieID) == TRUE

\* the unique index on (user_id, movie_id) of the ratings collection
RatingInsertAccepted(userID, movieID) ==
    ~\E i \in 1..Len(ratings) : ratings[i].UserID = userID /\ ratings[i].MovieID = movieID

\* the unique index on (user_id, movie_id) of the watchlists collection
WatchlistInsertAccepted(userID, movieID) ==
    ~\E i \in 1..Len(watchlists) :
        watchlists[i].UserID = userID /\ watchlists[i].MovieID = movieID

\* RatingRepository.GetUserRating finds a rating
HasRating(userID, movieID) ==
    \E i \in 1..Len(ratings) : ratings[i].UserID = userID /\ ratings[i].MovieID = movieID

\* WatchlistRepository.Exists: CountDocuments > 0
Exists(userID, movieID) ==
    \E i \in 1..Len(watchlists) :
        watchlists[i].UserID = userID /\ watchlists[i].MovieID = movieID

RowReturn(c, r, status, inserted) ==
    /\ rowRet' = [rowRet EXCEPT ![c] =
                    [op |-> r.op, user |-> r.user, movie |-> r.movie, rating |-> r.rating,
                     present |-> r.present, fault |-> r.fault, status |-> status,
                     inserted |-> inserted]]
    /\ row' = [row EXCEPT ![c] = NoRow]

RowStart(c) ==
    /\ row[c].pc = "idle"
    /\ nOps < MaxOps
    /\ nOps' = nOps + 1

\* the range check and the check for an existing rating; a failed check
\* (err # nil) lets the call go on to the insert
RateMovie_Call(c, userID, movieID, rating, dbOK) ==
    /\ RowStart(c)
    /\ LET r == [NoRow EXCEPT !.op = "RateMovie", !.user = userID, !.movie = movieID,
                              !.rating = rating]
           q == [r EXCEPT !.present = HasRating(userID, movieID), !.fault = ~dbOK]
       IN  IF rating < 1 \/ rating > 5 THEN RowReturn(c, r, "InvalidRating", FALSE)
           ELSE IF dbOK /\ HasRating(userID, movieID)
           THEN RowReturn(c, q, "AlreadyRated", FALSE)
           ELSE /\ row' = [row EXCEPT ![c] = [q EXCEPT !.pc = "rate_create"]]
                /\ UNCHANGED rowRet
    /\ UNCHANGED <<storeVars, cacheVars, rec, svc, svcRet, cancelled, prev>>

\* RatingRepository.Create: the error of InsertOne is returned as it is
RateMovie_Create(c, dbOK) ==
    /\ row[c].pc = "rate_create"
    /\ IF ~dbOK
       THEN RowReturn(c, row[c], "StorageError", FALSE) /\ UNCHANGED ratings
       ELSE IF ~RatingInsertAccepted(row[c].user, row[c].movie)
       THEN RowReturn(c, row[c], "DuplicateKey", FALSE) /\ UNCHANGED ratings
       ELSE /\ ratings' = Append(ratings, [UserID |-> row[c].user, MovieID |-> row[c].movie,
                                           Rating |-> row[c].rating])
            /\ RowReturn(c, row[c], "ok", TRUE)
    /\ UNCHANGED <<movies, watchlists, cacheVars, rec, svc, svcRet, cancelled, nOps, prev>>

\* the range check and the check that the rating exists
UpdateRating_Call(c, userID, movieID, rating, dbOK) ==
    /\ RowStart(c)
    /\ LET r == [NoRow EXCEPT !.op = "UpdateRating", !.user = userID, !.movie = movieID,
                              !.rating = rating]
           q == [r EXCEPT !.present = HasRating(userID, movieID), !.fault = ~dbOK]
       IN  IF rating < 1 \/ rating > 5 THEN RowReturn(c, r, "InvalidRating", FALSE)
           ELSE IF ~dbOK \/ ~HasRating(userID, movieID)
           THEN RowReturn(c, q, "RatingNotFound", FALSE)
           ELSE /\ row' = [row EXCEPT ![c] = [q EXCEPT !.pc = "update"]]
                /\ UNCHANGED rowRet
    /\ UNCHANGED <<storeVars, cacheVars, rec, svc, svcRet, cancelled, prev>>

\* UpdateOne with $set: the first rating of the pair gets the new value
SetRating(userID, movieID, rating) ==
    LET hits == {i \in 1..Len(ratings) :
                    ratings[i].UserID = userID /\ ratings[i].MovieID = movieID}
        first == CHOOSE i \in hits : \A j \in hits : i <= j
    IN  IF hits = {} THEN ratings ELSE [ratings EXCEPT ![first].Rating = rating]

\* RatingRepository.Update
UpdateRating_Update(c, dbOK) ==
    /\ row[c].pc = "update"
    /\ IF ~dbOK
       THEN RowReturn(c, row[c], "StorageError", FALSE) /\ UNCHANGED ratings
       ELSE /\ ratings' = SetRating(row[c].user, row[c].movie, row[c].rating)
            /\ RowReturn(c, row[c], "ok", FALSE)
    /\ UNCHANGED <<movies, watchlists, cacheVars, rec, svc, svcRet, cancelled, nOps, prev>>

\* the existence check of AddToWatchlist
AddToWatchlist_Call(c, userID, movieID, dbOK) ==
    /\ RowStart(c)
    /\ LET r == [NoRow EXCEPT !.op = "AddToWatchlist", !.user = userID, !.movie = movieID,
                              !.present = Exists(userID, movieID), !.fault = ~dbOK]
       IN  IF ~dbOK THEN RowReturn(c, r, "StorageError", FALSE)
           ELSE IF Exists(userID, movieID)
           THEN RowReturn(c, r, "AlreadyInWatchlist", FALSE)
           ELSE /\ row' = [row EXCEPT ![c] = [r EXCEPT !.pc = "add"]]
                /\ UNCHANGED rowRet
    /\ UNCHANGED <<storeVars, cacheVars, rec, svc, svcRet, cancelled, prev>>

\* WatchlistRepository.Add
AddToWatchlist_Add(c, dbOK) ==
    /\ row[c].pc = "add"
    /\ IF ~dbOK
       THEN RowReturn(c, row[c], "StorageError", FALSE) /\ UNCHANGED watchlists
       ELSE IF ~WatchlistInsertAccepted(row[c].user, row[c].movie)
       THEN RowReturn(c, row[c], "DuplicateKey", FALSE) /\ UNCHANGED watchlists
       ELSE /\ watchlists' = Append(watchlists,
                                    [UserID |-> row[c].user, MovieID |-> row[c].movie])
            /\ RowReturn(c, row[c], "ok", TRUE)
    /\ UNCHANGED <<movies, ratings, cacheVars, rec, svc, svcRet, cancelled, nOps, prev>>

\* DeleteOne: the first entry of the pair, if there is one, is removed
DeleteOne(userID, movieID) ==
    LET hits == {i \in 1..Len(watchlists) :
                    watchlists[i].UserID = userID /\ watchlists[i].MovieID = movieID}
        first == CHOOSE i \in hits : \A j \in hits : i <= j
    IN  IF hits = {} THEN watchlists
        ELSE SubSeq(watchlists, 1, first - 1) \o SubSeq(watchlists, first + 1, Len(watchlists))

\* WatchlistRepository.Remove: only the error of DeleteOne is returned
RemoveFromWatchlist(c, userID, movieID, dbOK) ==
    /\ RowStart(c)
    /\ LET r == [NoRow EXCEPT !.op = "RemoveFromWatchlist", !.user = userID,
                              !.movie = movieID, !.present = Exists(userID, movieID),
                              !.fault = ~dbOK]
       IN  IF ~dbOK
           THEN RowReturn(c, r, "StorageError", FALSE) /\ UNCHANGED watchlists
           ELSE /\ watchlists' = DeleteOne(userID, movieID)
                /\ RowReturn(c, r, "ok", FALSE)
    /\ UNCHANGED <<movies, ratings, cacheVars, rec, svc, svcRet, cancelled, prev>>

\* movie identifiers and rating values passed by the callers
RowMovies == {1}
RatingInputs == {0, 3, 5, 6}

RowNext(c) ==
    \/ \E u \in Users, m \in RowMovies, r \in RatingInputs, dbOK \in BOOLEAN :
           RateMovie_Call(c, u, m, r, dbOK)
    \/ \E dbOK \in BOOLEAN : RateMovie_Create(c, dbOK)
    \/ \E u \in Users, m \in RowMovies, r \in RatingInputs, dbOK \in BOOLEAN :
           UpdateRating_Call(c, u, m, r, dbOK)
    \/ \E dbOK \in BOOLEAN : UpdateRating_Update(c, dbOK)
    \/ \E u \in Users, m \in RowMovies, dbOK \in BOOLEAN : AddToWatchlist_Call(c, u, m, dbOK)
    \/ \E dbOK \in BOOLEAN : AddToWatchlist_Add(c, dbOK)
    \/ \E u \in Users, m \in RowMovies, dbOK \in BOOLEAN : RemoveFromWatchlist(c, u, m, dbOK)

NextRows == \E c \in Callers : RowNext(c)

SpecRows == Init /\ [][NextRows]_vars

\* ------------------------------------ the same request, sent a second time
\* the client keeps the first response
Respond_Keep ==
    /\ rec # NoRec
    /\ prev = NoRec
    /\ prev' = rec
    /\ rec' = NoRec
    /\ UNCHANGED <<storeVars, cacheVars, svc, svcRet, cancelled, row, rowRet, nOps>>

\* GET /recommendations twice for one user, with the same limit, on a store
\* that nothing writes to in between
NextTwice ==
    \/ /\ prev = NoRec
       /\ \E u \in Users, limit \in 1..MaxLimit, rev \in BOOLEAN :
              GetRecommendations(u, limit, "none", rev)
    \/ Respond_Keep
    \/ /\ prev # NoRec
       /\ \E rev \in BOOLEAN : GetRecommendations(prev.user, prev.limit, "none", rev)

SpecTwice == InitRec /\ [][NextTwice]_vars

\* ------------------------------------------------ genre fields of the store
Action == <<"A", "c", "t", "i", "o", "n">>
SciFi == <<"S", "c", "i", "-", "F", "i">>

\* what stands between two commas of a genre field
Pieces ==
    {<<>>, <<" ">>, Action, <<" ", " ">> \o Action \o <<" ">>, SciFi \o <<" ">>,
     <<" ">> \o SciFi}

RECURSIVE Join(_)
Join(ps) ==
    IF Len(ps) = 1 THEN ps[1]
    ELSE Join(SubSeq(ps, 1, Len(ps) - 1)) \o <<",">> \o ps[Len(ps)]

GenreFields == UNION {{Join(ps) : ps \in [1..n -> Pieces]} : n \in 1..MaxPieces}

\* one movie with the genre field, liked by u1
InitGenres ==
    /\ CacheInit
    /\ ServiceInit
    /\ apiKey = "key"
    /\ \E f \in GenreFields : movies = <<[CachedMovie EXCEPT !.ID = 1, !.Genre = f]>>
    /\ ratings = <<[UserID |-> "u1", MovieID |-> 1, Rating |-> 5]>>
    /\ watchlists = <<>>
    /\ rec = NoRec

NextGenres ==
    \/ \E u \in Users, rev \in BOOLEAN : GetRecommendations(u, 1, "none", rev)
    \/ Respond

SpecGenres == InitGenres /\ [][NextGenres]_vars

\* ------------------------------------------------- claims about the cache
\* a detail document whose required fields are all non-blank
NonBlank(r) ==
    /\ r.kind = "ok"
    /\ TrimSpace(r.IMDbID) # <<>>
    /\ TrimSpace(r.Title) # <<>>
    /\ TrimSpace(r.Genre) # <<>>

RecordsFor(x) == {i \in 1..Len(movies) : movies[i].IMDbID = x}

\* two finished calls of different callers that both missed the same ID and
\* both received the catalog's well-formed document for it
RacedOn(r1, r2) ==
    /\ r1.x = r2.x
    /\ NonBlank(r1.resp) /\ r1.resp.IMDbID = r1.x /\ ~r1.fault
    /\ NonBlank(r2.resp) /\ r2.resp.IMDbID = r2.x /\ ~r2.fault

\* C1: two callers that run GetOrCreateByIMDbID concurrently for the same
\* ID missing from the store both return a movie without error, and the
\* store ends with exactly one record for that ID.
C1_BothCallersSucceed ==
    \A i \in 1..Len(rets[1]), j \in 1..Len(rets[2]) :
        RacedOn(rets[1][i], rets[2][j]) =>
            /\ rets[1][i].status = "ok"
            /\ rets[2][j].status = "ok"
            /\ Cardinality(RecordsFor(rets[1][i].x)) = 1

\* C2: two calls GetOrCreateByIMDbID(x) in sequence, with nothing in between
\* and the catalog answering every request with a well-formed document, make
\* exactly one detail request in total and return the same local identifier.
C2_SecondCallIsCacheHit ==
    (/\ Len(rets[1]) = 2
     /\ rets[1][1].x = rets[1][2].x
     /\ \A i \in 1..2 : ~rets[1][i].fault
                        /\ rets[1][i].status # "ConfigurationError"
                        /\ rets[1][i].resp.kind \in {"none", "ok"}
                        /\ (rets[1][i].resp.kind = "ok" => NonBlank(rets[1][i].resp))
     /\ rets[1][1].resp.kind = "ok")
    => /\ extCalls = 1
       /\ rets[1][1].status = "ok"
       /\ rets[1][2].status = "ok"
       /\ rets[1][1].movie.ID = rets[1][2].movie.ID

\* C3: on a miss, a detail document whose ID, title or genre is blank after
\* trimming makes the call fail with InvalidUpstreamData and nothing is stored.
C3_BlankFieldsRejected ==
    \A c \in Callers : \A i \in 1..Len(rets[c]) :
        (rets[c][i].resp.kind = "ok" /\ ~NonBlank(rets[c][i].resp) /\ ~rets[c][i].fault)
        => /\ rets[c][i].status = "InvalidUpstreamData"
           /\ ~rets[c][i].inserted

\* ------------------------------------- claims about the recommendations
IsDigit(c) == c \in {"0", "1", "2", "7", "8", "9"}

DigitVal(c) == Ord(c) - 48

DotPos(s) ==
    IF \E i \in 1..Len(s) : s[i] = "."
    THEN CHOOSE i \in 1..Len(s) : s[i] = "." /\ \A j \in 1..(i - 1) : s[j] # "."
    ELSE Len(s) + 1

IntPart(s) == SubSeq(s, 1, DotPos(s) - 1)

FracPart(s) == SubSeq(s, DotPos(s) + 1, Len(s))

\* the rating text is a decimal number: digits, optionally a point and digits
IsDecimal(s) ==
    /\ IntPart(s) # <<>>
    /\ \A i \in 1..Len(IntPart(s)) : IsDigit(IntPart(s)[i])
    /\ \A i \in 1..Len(FracPart(s)) : IsDigit(FracPart(s)[i])

RECURSIVE DigitsVal(_)
DigitsVal(s) ==
    IF s = <<>> THEN 0 ELSE DigitsVal(SubSeq(s, 1, Len(s) - 1)) * 10 + DigitVal(s[Len(s)])

\* the value of a decimal rating text, in tenths
Tenths(s) ==
    DigitsVal(IntPart(s)) * 10 + (IF FracPart(s) = <<>> THEN 0 ELSE DigitVal(FracPart(s)[1]))

\* a may precede b in a list ordered by descending numeric rating, with the
\* non-numeric and missing ratings last
DecimalDescOK(a, b) ==
    IF IsDecimal(a) THEN (IsDecimal(b) => Tenths(a) >= Tenths(b)) ELSE ~IsDecimal(b)

ListIDs(list) == {list[i].ID : i \in 1..Len(list)}

NotExcluded(userID) ==
    {i \in 1..Len(movies) : movies[i].ID \notin GetMoviesToExclude(userID)}

RECURSIVE SumSeq(_)
SumSeq(s) == IF s = <<>> THEN 0 ELSE Head(s) + SumSeq(Tail(s))

\* number of entries of the response selected by the per-genre step
GenreSelected == SumSeq(rec.segs)

\* entries i and i+1 of the response were taken for the same preferred genre
SameSegment(i) ==
    \E k \in 1..Len(rec.segs) :
        /\ SumSeq(SubSeq(rec.segs, 1, k - 1)) < i
        /\ i + 1 <= SumSeq(SubSeq(rec.segs, 1, k))

HasLiked(userID) ==
    \E i \in 1..Len(ratings) :
        ratings[i].UserID = userID /\ ratings[i].Rating >= LikedThreshold

\* C4: no movie the user has rated (at any value) or has in the watchlist
\* appears in the list GetRecommendations returns for that user, whether the
\* per-genre step or the fallback step selected it.
C4_ExcludedNeverRecommended ==
    rec.status = "ok" =>
        \A i \in 1..Len(rec.list) : rec.list[i].ID \notin GetMoviesToExclude(rec.user)

\* the user likes a genre, a movie of that genre is excluded, and the response
\* holds a per-genre pick followed by a different movie picked by the fallback
C4_Witness ==
    /\ rec.status = "ok" /\ rec.fail = "none"
    /\ Len(rec.prefs) >= 1
    /\ \E i \in 1..Len(movies) :
          /\ movies[i].ID \in GetMoviesToExclude(rec.user)
          /\ RegexMatchCI(rec.prefs[1], movies[i].Genre)
    /\ GenreSelected >= 1
    /\ Len(rec.list) > GenreSelected
    /\ Cardinality(ListIDs(rec.list)) = Len(rec.list)

\* C5: GetRecommendations with a limit of zero or below fails with
\* InvalidLimit; it neither succeeds nor aborts.
C5_NonPositiveLimitRejected ==
    (rec.status # "none" /\ rec.fail = "none" /\ rec.limit <= 0)
        => rec.status = "InvalidLimit"

\* C6: the returned list never holds the same movie identifier twice.
C6_NoDuplicateRecommendation ==
    rec.status = "ok" =>
        \A i, j \in 1..Len(rec.list) : rec.list[i].ID = rec.list[j].ID => i = j

\* C7: within the candidates taken for one preferred genre the movies are in
\* descending order of their rating compared as decimal numbers, and movies
\* with a non-numeric or missing rating come after the numerically rated ones.
C7_GenreCandidatesByDecimalRating ==
    (rec.status = "ok" /\ rec.fail = "none") =>
        \A i \in 1..(Len(rec.list) - 1) :
            SameSegment(i) =>
                DecimalDescOK(rec.list[i].IMDbRating, rec.list[i + 1].IMDbRating)

\* C8: for a user with no rating of 4 or more the preferred genres are empty,
\* every returned movie comes from the fallback, and the list is in
\* descending order of rating, the highest-rated non-excluded movies first.
C8_FallbackByDescendingRating ==
    (rec.status = "ok" /\ rec.fail = "none" /\ ~HasLiked(rec.user)) =>
        /\ rec.prefs = <<>>
        /\ GenreSelected = 0
        /\ \A i \in 1..(Len(rec.list) - 1) :
              DecimalDescOK(rec.list[i].IMDbRating, rec.list[i + 1].IMDbRating)
        /\ \A i \in 1..Len(rec.list) : \A k \in NotExcluded(rec.user) :
              movies[k].ID \notin ListIDs(rec.list)
                  => DecimalDescOK(rec.list[i].IMDbRating, movies[k].IMDbRating)

\* C9: when a per-genre candidate query or the fallback query returns a
\* storage error, GetRecommendations fails with StorageError and returns no
\* movies.
C9_QueryErrorFailsTheCall ==
    rec.hit => (rec.status = "StorageError" /\ rec.list = <<>>)

\* C10: for a positive limit and any user, when no storage query fails,
\* GetRecommendations succeeds, returns at most limit entries, and returns
\* fewer than limit only when fewer than limit movies of the store are
\* outside the user's exclusion set.
C10_PositiveLimitSucceeds ==
    (rec.status # "none" /\ rec.fail = "none" /\ rec.limit > 0) =>
        /\ rec.status = "ok"
        /\ Len(rec.list) <= rec.limit
        /\ (Len(rec.list) < rec.limit => Cardinality(NotExcluded(rec.user)) < rec.limit)

\* a user without liked movies asks for more than the store can offer: the
\* call degrades to the fallback and returns a short, non-empty list
C10_Witness ==
    /\ rec.status = "ok" /\ rec.fail = "none"
    /\ rec.limit = MaxLimit
    /\ rec.prefs = <<>>
    /\ GetMoviesToExclude(rec.user) # {}
    /\ Len(rec.list) >= 1
    /\ Len(rec.list) < rec.limit

\* ------------------------------------------------ claims C11 to C20
\* the genre tokens of the movies the user rated at LikedThreshold or above,
\* in the order in which the ratings and, within a movie, the tokens come
LikedTokens(userID) ==
    Flatten([i \in 1..Len(ratings) |->
        IF ratings[i].UserID = userID /\ ratings[i].Rating >= LikedThreshold
        THEN Flatten([k \in 1..Len(MoviesByID(ratings[i].MovieID)) |->
                         GenreTokens(MoviesByID(ratings[i].MovieID)[k].Genre)])
        ELSE <<>>])

FirstAt(t, s) == CHOOSE i \in 1..Len(s) : s[i] = t /\ \A j \in 1..(i - 1) : s[j] # t

\* C11: the preferred genres are the distinct genre tokens of the movies the
\* user rated 4 or more, each once, in descending order of their number of
\* occurrences, and tokens with equal numbers are in the order in which they
\* are first met when iterating the ratings.
C11_PreferredGenresStableOrder ==
    (rec.status # "none" /\ rec.fail # "prefs") =>
        LET toks == LikedTokens(rec.user)
            p == rec.prefs
        IN  /\ {p[i] : i \in 1..Len(p)} = {toks[i] : i \in 1..Len(toks)}
            /\ \A i, j \in 1..Len(p) : p[i] = p[j] => i = j
            /\ \A i, j \in 1..Len(p) :
                  i < j => /\ Count(p[i], toks) >= Count(p[j], toks)
                           /\ (Count(p[i], toks) = Count(p[j], toks)
                                  => FirstAt(p[i], toks) < FirstAt(p[j], toks))

\* C12: two GetRecommendations calls for the same user and limit on the same
\* store contents return the same movies in the same order.
C12_SameRequestSameResult ==
    (/\ prev.status = "ok" /\ rec.status = "ok"
     /\ rec.user = prev.user /\ rec.limit = prev.limit)
    => rec.list = prev.list

C14_CacheHitNoExternalCall ==
    [][\A c \in Callers :
          (/\ pc[c] = "find" /\ pc'[c] # "find"
           /\ HasIMDbID(imdbID[c])
           /\ ~(pc'[c] = "idle" /\ rets'[c][Len(rets'[c])].fault))
          => /\ pc'[c] = "idle"
             /\ rets'[c][Len(rets'[c])].status = "ok"
             /\ rets'[c][Len(rets'[c])].movie = FindByIMDbID(imdbID[c])
             /\ extCalls' = extCalls
             /\ movies' = movies]_vars

\* without an API key, a call returned the movie cached before and no detail
\* request was ever sent
C14_Witness ==
    /\ apiKey = ""
    /\ extCalls = 0
    /\ \E c \in Callers : \E i \in 1..Len(rets[c]) :
          /\ rets[c][i].status = "ok"
          /\ rets[c][i].movie = CachedMovie
          /\ ~rets[c][i].inserted

\* C15: a search whose upstream search request succeeded returns the whole
\* upstream result list without error, whatever detail requests or inserts
\* failed, and every result was gone through.
C15_SearchSurvivesItemFailures ==
    \A c \in Callers :
        (svcRet[c].op = "SearchMovies" /\ svcRet[c].search # <<>>)
        => /\ svcRet[c].status = "ok"
           /\ svcRet[c].list = svcRet[c].search
           /\ Len(svcRet[c].outcomes) = Len(svcRet[c].search)

\* the first result of a search failed (detail request or insert) and the
\* second one was stored
C15_Witness ==
    /\ svcRet[2].op = "SearchMovies" /\ svcRet[2].status = "ok"
    /\ Len(svcRet[2].search) >= 2
    /\ svcRet[2].outcomes[1] \in {"fetchfail", "insertfail", "duplicate"}
    /\ svcRet[2].outcomes[2] = "inserted"

\* the detail request of GetOrCreateByIMDbID does not stay pending
DetailRequestEnds == [](pc[1] = "fetch" => <>(pc[1] # "fetch"))

\* C16: every detail request of GetOrCreateByIMDbID ends, and a call whose
\* enclosing HTTP request was cancelled while the detail request was pending
\* returns UpstreamUnavailable.
C16_UpstreamCallEndsOrIsCancelled ==
    /\ DetailRequestEnds
    /\ [](\A i \in cancelled[1] :
             i <= Len(rets[1]) => rets[1][i].status = "UpstreamUnavailable")

C20_StoreUnchanged ==
    [][(rec = NoRec /\ rec' # NoRec)
          => (movies' = movies /\ ratings' = ratings /\ watchlists' = watchlists)]_vars

\* a call that returned movies to a user with a rating or a watchlist entry
C20_Witness ==
    /\ rec.status = "ok" /\ rec.list # <<>>
    /\ rec.excl # {}
    /\ Len(rec.list) = rec.limit

\* ------------------------------------------------ claims C21 to C30
\* the pieces of f between its commas, without the spaces around them, the
\* empty ones left out: the substrings that start and end with a character
\* other than space, hold no comma, and have only spaces between them and the
\* nearest comma or end of f
TrimmedPieces(f) ==
    LET inner(k) == f[k] # "," /\ f[k] # " "
        left(a) == \E i \in 1..a : /\ (i = 1 \/ f[i - 1] = ",")
                                   /\ \A k \in i..(a - 1) : f[k] = " "
        right(b) == \E j \in b..Len(f) : /\ (j = Len(f) \/ f[j + 1] = ",")
                                         /\ \A k \in (b + 1)..j : f[k] = " "
    IN  {SubSeq(f, ab[1], ab[2]) :
            ab \in {q \in (1..Len(f)) \X (1..Len(f)) :
                      /\ q[1] <= q[2]
                      /\ inner(q[1]) /\ left(q[1])
                      /\ inner(q[2]) /\ right(q[2])
                      /\ \A k \in q[1]..q[2] : f[k] # ","}}

ExampleField == <<" ", " ">> \o Action \o <<" ", ",">> \o SciFi \o <<" ", ",">>

\* C21: the preferred genres a genre field contributes are its comma-separated
\* pieces, trimmed, the empty ones dropped; "  Action ,Sci-Fi ," gives exactly
\* Action and Sci-Fi.
C21_GenreTokensSplitTrimmed ==
    (rec.status = "ok" /\ rec.user = "u1") =>
        LET f == movies[1].Genre
            p == rec.prefs
        IN  /\ {p[i] : i \in 1..Len(p)} = TrimmedPieces(f)
            /\ \A i \in 1..Len(p) : p[i] # <<>> /\ TrimSpace(p[i]) = p[i]
            /\ f = ExampleField => {p[i] : i \in 1..Len(p)} = {Action, SciFi}

\* the genre field of the example was split into its two tokens
C21_Witness ==
    /\ rec.status = "ok" /\ rec.user = "u1"
    /\ movies[1].Genre = ExampleField
    /\ Len(rec.prefs) = 2
    /\ {rec.prefs[1], rec.prefs[2]} = {Action, SciFi}

\* C22: every record of the movies collection, whichever of
\* GetOrCreateByIMDbID, GetMovieDetails and the caching loop of SearchMovies
\* stored it, has a non-empty IMDb ID, a non-empty title and a non-empty genre.
C22_StoredRecordsValidated ==
    \A i \in 1..Len(movies) :
        /\ movies[i].IMDbID # <<>>
        /\ movies[i].Title # <<>>
        /\ movies[i].Genre # <<>>

\* C23: GetMovieDetails never returns without error and without a movie: a
\* call that returns no error returns the record of the requested ID, which
\* is then in the store.
C23_DetailsNeverNilNil ==
    \A c \in Callers :
        (svcRet[c].op = "GetMovieDetails" /\ svcRet[c].status = "ok")
        => /\ svcRet[c].movie # NoMovie
           /\ svcRet[c].movie.IMDbID = svcRet[c].imdbID
           /\ HasIMDbID(svcRet[c].imdbID)

\* the movies of the store that match the genre and are not excluded
Candidates(genre, userID) ==
    {i \in NotExcluded(userID) : RegexMatchCI(genre, movies[i].Genre)}

Min(a, b) == IF a <= b THEN a ELSE b

\* C24: the returned list is, in the order of the preferred genres, the
\* candidates taken for each of them, followed by the fallback candidates in
\* the order of the store; a genre is asked for only while fewer than limit
\* entries are collected, and the fallback only when the genres gave fewer
\* than limit.
C24_GenresInOrderThenFallback ==
    (rec.status = "ok" /\ rec.fail = "none") =>
        LET before(k) == SumSeq(SubSeq(rec.segs, 1, k - 1))
            rest == SubSeq(rec.list, GenreSelected + 1, Len(rec.list))
            open == SelectSeq(movies, LAMBDA m : m.ID \notin GetMoviesToExclude(rec.user))
        IN  /\ Len(rec.segs) <= Len(rec.prefs)
            /\ GenreSelected <= Len(rec.list)
            /\ \A k \in 1..Len(rec.segs) :
                  /\ before(k) < rec.limit
                  /\ rec.segs[k] = Min(rec.limit - before(k),
                                       Cardinality(Candidates(rec.prefs[k], rec.user)))
                  /\ \A i \in (before(k) + 1)..(before(k) + rec.segs[k]) :
                        \E j \in Candidates(rec.prefs[k], rec.user) : movies[j] = rec.list[i]
            /\ Len(rec.segs) < Len(rec.prefs) => GenreSelected >= rec.limit
            /\ rest = Take(open, rec.limit - GenreSelected)

\* a pick for a preferred genre stands before a fallback pick that the store
\* holds earlier
C24_Witness ==
    /\ rec.status = "ok" /\ rec.fail = "none"
    /\ Len(rec.prefs) = 2
    /\ GenreSelected = 1
    /\ Len(rec.list) = 2
    /\ rec.list[2].ID < rec.list[1].ID

\* C25: a GetOrCreateByIMDbID call that fails with ConfigurationError,
\* UpstreamUnavailable or NotFound has stored nothing: the step that ends it
\* leaves the movies collection as it was, only the insert of a call that
\* succeeds ever changes the collection, and the call that fails for want of
\* an API key ends at the lookup, before any detail request.
C25_FailedMissStoresNothing ==
    [][/\ \A c \in Callers :
             (/\ pc[c] # "idle" /\ pc'[c] = "idle"
              /\ rets'[c][Len(rets'[c])].status
                    \in {"ConfigurationError", "UpstreamUnavailable", "NotFound"})
             => /\ movies' = movies
                /\ ~rets'[c][Len(rets'[c])].inserted
                /\ ~HasIMDbID(imdbID[c]) => \A i \in 1..Len(movies') :
                                                movies'[i].IMDbID # imdbID[c]
                /\ rets'[c][Len(rets'[c])].status = "ConfigurationError"
                      => (pc[c] = "find" /\ extCalls' = extCalls)
       /\ movies' # movies =>
             \E c \in Callers : /\ pc[c] = "insert" /\ pc'[c] = "idle"
                                /\ rets'[c][Len(rets'[c])].status = "ok"]_vars

\* with an API key, one call ended with UpstreamUnavailable and one with
\* NotFound, and the store is still empty
C25_Witness ==
    /\ movies = <<>>
    /\ extCalls = 2
    /\ \E c, d \in Callers : \E i \in 1..Len(rets[c]), j \in 1..Len(rets[d]) :
          /\ rets[c][i].status = "UpstreamUnavailable"
          /\ rets[d][j].status = "NotFound"

\* C26: RateMovie with a valid value for a pair that has a rating ends with
\* the conflict 'user has already rated this movie' and stores nothing, and a
\* RateMovie call that loses the race for an unrated pair ends with that same
\* conflict: no RateMovie call ends with the duplicate-key error of the insert.
C26_SecondRatingIsConflict ==
    \A c \in Callers :
        (rowRet[c].op = "RateMovie" /\ rowRet[c].rating \in 1..5)
        => /\ (rowRet[c].present /\ ~rowRet[c].fault)
                 => (rowRet[c].status = "AlreadyRated" /\ ~rowRet[c].inserted)
           /\ rowRet[c].status # "DuplicateKey"

\* C27: RemoveFromWatchlist for a movie that is not in the watchlist of the
\* user ends with a not-found error, not with success, and removes nothing.
C27_RemoveMissingIsNotFound ==
    \A c \in Callers :
        (rowRet[c].op = "RemoveFromWatchlist" /\ ~rowRet[c].present /\ ~rowRet[c].fault)
        => rowRet[c].status = "NotFound"

MovieIDs == {movies[i].ID : i \in 1..Len(movies)}

\* C28: every rating and every watchlist entry refers to a movie of the movies
\* collection: RateMovie and AddToWatchlist for an identifier that is in no
\* record of the collection store no row.
C28_RowsReferToStoredMovies ==
    /\ \A i \in 1..Len(ratings) : ratings[i].MovieID \in MovieIDs
    /\ \A i \in 1..Len(watchlists) : watchlists[i].MovieID \in MovieIDs

\* C29: a movie returned by GetOrCreateByIMDbID(x) has the IMDb ID x, and
\* from then on FindByIMDbID(x) finds a record, whatever ID the detail
\* document of the catalog carried.
C29_ReturnedMovieHasRequestedID ==
    \A c \in Callers : \A i \in 1..Len(rets[c]) :
        rets[c][i].status = "ok"
        => /\ rets[c][i].movie.IMDbID = rets[c][i].x
           /\ HasIMDbID(rets[c][i].x)

\* C30: after SearchMovies has returned without error, every search result
\* whose detail request and insert succeeded has a record under its IMDb ID in
\* the store, so that GetOrCreateByIMDbID for it is answered from the store.
C30_SearchedMoviesAreCached ==
    \A c \in Callers :
        (svcRet[c].op = "SearchMovies" /\ svcRet[c].status = "ok")
        => \A k \in 1..Len(svcRet[c].outcomes) :
              svcRet[c].outcomes[k] = "inserted" => HasIMDbID(svcRet[c].search[k])

====
